---------------------------- MODULE Spec2Model ----------------------------
(* A state-machine model of src/main.js, the behaviour layer of the        *)
(* ITEasier landing page: in-page anchor scrolling, the mobile menu, the   *)
(* two scroll watchers, the reveal-on-scroll observer and the contact      *)
(* form.  Every event handler of the script is one action; the state is    *)
(* the part of the DOM and of the closures the handlers read and write.    *)
EXTENDS Integers, Sequences, FiniteSets, TLC

VARIABLES
    dom,                  \* which of the elements the script looks up exist
    prefersReducedMotion, \* the preference sampled once when the script runs
    animatedElements,     \* the elements carrying the class 'animate-on-scroll'
    motionPreference,     \* the user's reduced-motion preference as it is now
    mainNavIsOpen,        \* mainNav carries the class 'is-open'
    ariaExpanded,         \* menuToggle's aria-expanded attribute
    ariaLabel,            \* menuToggle's aria-label attribute
    bodyOverflow,         \* document.body.style.overflow
    lastEvent,            \* the event whose handlers ran last
    error,                \* the exception the last event's handlers raised
    defaultPrevented,     \* the last event had preventDefault() called
    scrollTo,             \* the window.scrollTo request of the last event
    focused,              \* the last event focused its target element
    scrollY,              \* window.scrollY
    innerHeight,          \* window.innerHeight
    headerScrolled,       \* header carries the class 'header--scrolled'
    lastScrollY,          \* closure variable of setupHeaderScroll
    headerTicking,        \* closure variable 'ticking' of setupHeaderScroll
    scrollTopVisible,     \* scrollTopBtn carries the class 'is-visible'
    scrollTopTicking,     \* closure variable 'ticking' of setupScrollToTop
    rafQueue,             \* callbacks handed to requestAnimationFrame
    revealed,             \* animated elements carrying the class 'is-visible'
    observed,             \* animated elements the IntersectionObserver watches
    value,                \* the value of each form input
    invalid,              \* inputs carrying the class 'is-invalid'
    errorText,            \* textContent of each input's .form-error element
    href,                 \* window.location.href
    navs,                 \* how many times location.href was assigned
    notices,              \* success notices present in the document
    timers                \* success notices whose dismiss timer is pending

pageVars == <<dom, prefersReducedMotion, animatedElements, motionPreference>>

menuVars == <<mainNavIsOpen, ariaExpanded, ariaLabel, bodyOverflow>>

eventVars == <<lastEvent, error, defaultPrevented, scrollTo, focused>>

scrollVars ==
    <<scrollY, innerHeight, headerScrolled, lastScrollY, headerTicking,
      scrollTopVisible, scrollTopTicking, rafQueue>>

revealVars == <<revealed, observed>>

formVars == <<value, invalid, errorText, href, navs, notices, timers>>

vars ==
    <<pageVars, menuVars, eventVars, scrollVars, revealVars, formVars>>

-----------------------------------------------------------------------------
(* Bounds of the model.                                                    *)

\* scroll offsets run over 0 and the offsets at most ScrollWindow away from
\* the header's threshold
ScrollWindow == 2

\* most elements carrying the class 'animate-on-scroll'
NumAnimated == 6

\* longest batch of entries one IntersectionObserver callback receives
MaxEntries == 2

-----------------------------------------------------------------------------
(* Values shared by the handlers.                                          *)

NoError == "none"

NoScroll == [requested |-> FALSE, top |-> 0, behavior |-> "none"]

\* src/main.js:43, 61, 186: behavior: prefersReducedMotion ? 'auto' : 'smooth'
scrollBehavior == IF prefersReducedMotion THEN "auto" ELSE "smooth"

ScrollRequest(top) == [requested |-> TRUE, top |-> top, behavior |-> scrollBehavior]

\* What an event leaves behind: its name, the exception one of its handlers
\* raised, whether preventDefault() was called, its scroll request and
\* whether it moved the focus.
Event(name, err, prevented, scroll, focus) ==
    /\ lastEvent' = name
    /\ error' = err
    /\ defaultPrevented' = prevented
    /\ scrollTo' = scroll
    /\ focused' = focus

\* An event whose handlers raise nothing and touch nothing of the above.
PlainEvent(name) == Event(name, NoError, FALSE, NoScroll, FALSE)

-----------------------------------------------------------------------------
(* The elements the script looks up (src/main.js:13-19, 228-231, 313-314, *)
(* 368) and the attributes of the markup it reads (289).                   *)

ValidatedFields == {"name", "email", "message"}

Fields == ValidatedFields \cup {"phone"}

ElementNames ==
    {"header", "menuToggle", "mainNav", "scrollTopBtn", "contactForm",
     "submitBtn"} \cup Fields

\* A page: which elements exist, which inputs carry 'required' and which
\* inputs have a .form-error element in their .form-group.
Pages ==
    [has : [ElementNames -> BOOLEAN],
     required : [Fields -> BOOLEAN],
     errorEl : [Fields -> BOOLEAN]]

\* The page the script was written for: everything present, the three
\* validated inputs required, the phone input optional.
FullPage ==
    [has |-> [e \in ElementNames |-> TRUE],
     required |-> [f \in Fields |-> f \in ValidatedFields],
     errorEl |-> [f \in Fields |-> TRUE]]

\* An input exists only inside an existing form (contactForm.querySelector).
FieldPresent(f) == dom.has["contactForm"] /\ dom.has[f]

\* The user switches the reduced-motion preference; the script holds no
\* listener on the media query, only the constant of line 10.
ChangeMotionPreference ==
    /\ motionPreference' = ~motionPreference
    /\ PlainEvent("changePreference")
    /\ UNCHANGED <<dom, prefersReducedMotion, animatedElements, menuVars,
                   scrollVars, revealVars, formVars>>

-----------------------------------------------------------------------------
(* Mobile menu (src/main.js:75-119).                                       *)

LabelClose == "Zamknij menu"

LabelOpen == "Otworz menu"

\* What the markup holds before the script writes the attribute.
FromMarkup == "markup"

\* setupMobileMenu returns before adding any listener when either is missing.
MenuInstalled == dom.has["menuToggle"] /\ dom.has["mainNav"]

openMobileMenu ==
    /\ mainNavIsOpen' = TRUE
    /\ ariaExpanded' = "true"
    /\ ariaLabel' = LabelClose
    /\ bodyOverflow' = "hidden"

\* a close that leaves the body's scroll lock in place
closeMobileMenu_KeepsLock ==
    /\ mainNavIsOpen' = FALSE
    /\ ariaExpanded' = "false"
    /\ ariaLabel' = LabelOpen
    /\ UNCHANGED bodyOverflow

closeMobileMenu ==
    /\ mainNavIsOpen' = FALSE
    /\ ariaExpanded' = "false"
    /\ ariaLabel' = LabelOpen
    /\ bodyOverflow' = ""

\* a toggle that forgets the open case
toggleMobileMenu_OpensOnly == openMobileMenu

toggleMobileMenu == IF mainNavIsOpen THEN closeMobileMenu ELSE openMobileMenu

\* if (mainNav.classList.contains('is-open')) closeMobileMenu();
closeIfOpen == IF mainNavIsOpen THEN closeMobileMenu ELSE UNCHANGED menuVars

\* click on the toggle control (listener added at line 78)
ClickToggle ==
    /\ dom.has["menuToggle"]
    /\ IF MenuInstalled THEN toggleMobileMenu ELSE UNCHANGED menuVars
    /\ PlainEvent("clickToggle")
    /\ UNCHANGED <<pageVars, scrollVars, revealVars, formVars>>

\* keydown on the document (listener added at line 81)
Keydown(key) ==
    /\ IF MenuInstalled /\ key = "Escape" THEN closeIfOpen ELSE UNCHANGED menuVars
    /\ PlainEvent(IF key = "Escape" THEN "keydownEscape" ELSE "keydownOther")
    /\ UNCHANGED <<pageVars, scrollVars, revealVars, formVars>>

-----------------------------------------------------------------------------
(* In-page anchors (src/main.js:36-70).                                    *)

\* What the href of a link is: '#', a fragment that selects an element, a
\* fragment that selects nothing, or (for a navigation link) a href that
\* does not start with '#', to which setupSmoothScroll adds no listener.
AnchorKinds == {"root", "found", "missing"}

LinkKinds == AnchorKinds \cup {"external"}

\* The exception of the anchor listener, if any: mainNav.classList at line
\* 52 and header.offsetHeight at line 56 are read without a null check.
AnchorError(kind) ==
    IF kind # "found" THEN NoError
    ELSE IF ~dom.has["mainNav"] THEN "TypeError: mainNav is null"
    ELSE IF ~dom.has["header"] THEN "TypeError: header is null"
    ELSE NoError

\* Line 52 is reached and does not raise: the listener looks at the menu.
AnchorReachesMenu(kind) == kind = "found" /\ dom.has["mainNav"]

\* What the anchor listener leaves behind, up to its exception or its end.
AnchorEvent(name, kind, offsetTop, headerHeight) ==
    Event(name,
          AnchorError(kind),
          kind \in {"root", "found"},
          IF kind = "root" THEN ScrollRequest(0)
          ELSE IF kind = "found" /\ AnchorError(kind) = NoError
               THEN ScrollRequest(offsetTop - headerHeight)
               ELSE NoScroll,
          kind = "found" /\ AnchorError(kind) = NoError)

\* click on an a[href^="#"] that is not a navigation link
ClickAnchor(kind, offsetTop, headerHeight) ==
    /\ IF AnchorReachesMenu(kind) THEN closeIfOpen ELSE UNCHANGED menuVars
    /\ AnchorEvent("clickAnchor", kind, offsetTop, headerHeight)
    /\ UNCHANGED <<pageVars, scrollVars, revealVars, formVars>>

\* click on a .header__nav-link: the anchor listener (when its href starts
\* with '#') and then the listener added at line 89; an exception in the
\* first does not keep the second from running.  Both close the menu only
\* if it is open, so together they close it once.
ClickNavLink(kind, offsetTop, headerHeight) ==
    /\ IF MenuInstalled \/ (kind # "external" /\ AnchorReachesMenu(kind))
         THEN closeIfOpen
         ELSE UNCHANGED menuVars
    /\ IF kind = "external"
         THEN PlainEvent("clickNavLink")
         ELSE AnchorEvent("clickNavLink", kind, offsetTop, headerHeight)
    /\ UNCHANGED <<pageVars, scrollVars, revealVars, formVars>>

-----------------------------------------------------------------------------
(* Scroll watchers (src/main.js:124-192).                                  *)

\* if (scrollY > 50)
ScrollThreshold == 50

\* a threshold that includes the offset 50 itself
HeaderMarker_AtThreshold(y) == y >= ScrollThreshold

\* updateHeader: the class the header ends up with at offset y
HeaderMarker(y) == y > ScrollThreshold

\* updateScrollTopVisibility: scrollY > window.innerHeight * 0.5
ScrollTopMarker(y, h) == 2 * y > h

\* a header listener that schedules a callback on every scroll event
HeaderListener_AlwaysSchedules(q) ==
    IF dom.has["header"] THEN Append(q, "updateHeader") ELSE q

\* The scroll listeners, in the order they were added: each hands its
\* callback to requestAnimationFrame unless its own flag says one is pending.
HeaderListener(q) ==
    IF dom.has["header"] /\ ~headerTicking THEN Append(q, "updateHeader") ELSE q

ScrollTopListener(q) ==
    IF dom.has["scrollTopBtn"] /\ ~scrollTopTicking
    THEN Append(q, "updateScrollTopVisibility")
    ELSE q

InQueue(q, cb) == \E i \in 1..Len(q) : q[i] = cb

\* The page is scrolled to offset y and the scroll event is dispatched.
Scroll(y) ==
    /\ scrollY' = y
    /\ rafQueue' = ScrollTopListener(HeaderListener(rafQueue))
    /\ headerTicking' = (headerTicking \/ dom.has["header"])
    /\ scrollTopTicking' = (scrollTopTicking \/ dom.has["scrollTopBtn"])
    /\ PlainEvent("scroll")
    /\ UNCHANGED <<pageVars, menuVars, revealVars, formVars,
                   innerHeight, headerScrolled, lastScrollY, scrollTopVisible>>

\* a frame whose callbacks recompute but leave their ticking flags set
AnimationFrame_KeepsTicking ==
    /\ rafQueue # << >>
    /\ rafQueue' = << >>
    /\ IF InQueue(rafQueue, "updateHeader")
         THEN /\ headerScrolled' = HeaderMarker(scrollY)
              /\ lastScrollY' = scrollY
         ELSE UNCHANGED <<headerScrolled, lastScrollY>>
    /\ IF InQueue(rafQueue, "updateScrollTopVisibility")
         THEN scrollTopVisible' = ScrollTopMarker(scrollY, innerHeight)
         ELSE UNCHANGED scrollTopVisible
    /\ PlainEvent("frame")
    /\ UNCHANGED <<pageVars, menuVars, revealVars, formVars,
                   scrollY, innerHeight, headerTicking, scrollTopTicking>>

\* An animation frame: every callback of the queue runs, in order.
AnimationFrame ==
    /\ rafQueue # << >>
    /\ rafQueue' = << >>
    /\ IF InQueue(rafQueue, "updateHeader")
         THEN /\ headerScrolled' = HeaderMarker(scrollY)
              /\ lastScrollY' = scrollY
              /\ headerTicking' = FALSE
         ELSE UNCHANGED <<headerScrolled, lastScrollY, headerTicking>>
    /\ IF InQueue(rafQueue, "updateScrollTopVisibility")
         THEN /\ scrollTopVisible' = ScrollTopMarker(scrollY, innerHeight)
              /\ scrollTopTicking' = FALSE
         ELSE UNCHANGED <<scrollTopVisible, scrollTopTicking>>
    /\ PlainEvent("frame")
    /\ UNCHANGED <<pageVars, menuVars, revealVars, formVars,
                   scrollY, innerHeight>>

\* The viewport changes height; the script listens to no resize event.
Resize(h) ==
    /\ h # innerHeight
    /\ innerHeight' = h
    /\ PlainEvent("resize")
    /\ UNCHANGED <<pageVars, menuVars, revealVars, formVars,
                   scrollY, headerScrolled, lastScrollY, headerTicking,
                   scrollTopVisible, scrollTopTicking, rafQueue>>

\* a click that also releases the scroll lock of the body
ClickScrollTop_Unlocks ==
    /\ dom.has["scrollTopBtn"]
    /\ bodyOverflow' = ""
    /\ Event("clickScrollTop", NoError, FALSE, ScrollRequest(0), FALSE)
    /\ UNCHANGED <<pageVars, mainNavIsOpen, ariaExpanded, ariaLabel,
                   scrollVars, revealVars, formVars>>

\* click on the scroll-to-top control (listener added at line 183)
ClickScrollTop ==
    /\ dom.has["scrollTopBtn"]
    /\ Event("clickScrollTop", NoError, FALSE, ScrollRequest(0), FALSE)
    /\ UNCHANGED <<pageVars, menuVars, scrollVars, revealVars,
                   formVars>>

-----------------------------------------------------------------------------
(* Reveal on scroll (src/main.js:197-220).                                 *)

\* a setup that observes whatever the motion preference is
ObserverCreated_IgnoresPreference(rm, els) == els # {}

\* setupScrollAnimations creates the observer only past the early return:
\* if (prefersReducedMotion || !animatedElements.length)
ObserverCreated(rm, els) == ~rm /\ els # {}

\* a callback that also hides an element that left the viewport
RevealEntry_Toggles(state, entry) ==
    IF entry.isIntersecting
    THEN [revealed |-> state.revealed \cup {entry.target},
          observed |-> state.observed \ {entry.target}]
    ELSE [revealed |-> state.revealed \ {entry.target},
          observed |-> state.observed]

\* One entry of the callback: if (entry.isIntersecting) add the class and
\* stop observing the target.
RevealEntry(state, entry) ==
    IF entry.isIntersecting
    THEN [revealed |-> state.revealed \cup {entry.target},
          observed |-> state.observed \ {entry.target}]
    ELSE state

RECURSIVE RevealEntries(_, _)
\* entries.forEach(...)
RevealEntries(state, entries) ==
    IF entries = << >> THEN state
    ELSE RevealEntries(RevealEntry(state, Head(entries)), Tail(entries))

EntryBatches ==
    UNION {[1..n -> [target : animatedElements, isIntersecting : BOOLEAN]] :
           n \in 1..MaxEntries}

\* The observer's callback runs with a batch of entries.
Intersect(entries) ==
    /\ ObserverCreated(prefersReducedMotion, animatedElements)
    /\ LET after == RevealEntries([revealed |-> revealed, observed |-> observed],
                                  entries)
       IN /\ revealed' = after.revealed
          /\ observed' = after.observed
    /\ PlainEvent("intersect")
    /\ UNCHANGED <<pageVars, menuVars, scrollVars, formVars>>

-----------------------------------------------------------------------------
(* Text.  A string is a sequence of symbols: a symbol is one character, or *)
(* (in the literals of the script only) a run of ASCII letters, digits and *)
(* '-', which encodeURIComponent leaves as they are.                       *)

\* longest email value the validation is checked on
MaxLen == 6

\* most submits of the form in one run
MaxSubmits == 2

LF == "LF"

\* \s of the regular expression and of String.prototype.trim
Whitespace == {" ", LF}

\* the characters a user types in the model
Typed == {"a", ".", "@", " "}

Strings(n) == UNION {[1..k -> Typed] : k \in 0..n}

RECURSIVE TrimStart(_)
TrimStart(s) ==
    IF s # << >> /\ Head(s) \in Whitespace THEN TrimStart(Tail(s)) ELSE s

RECURSIVE TrimEnd(_)
TrimEnd(s) ==
    IF s # << >> /\ s[Len(s)] \in Whitespace
    THEN TrimEnd(SubSeq(s, 1, Len(s) - 1))
    ELSE s

\* value.trim()
Trim(s) == TrimEnd(TrimStart(s))

\* a character class that forgets the '@'
NotSpaceNorAt_AllowsAt(c) == c \notin Whitespace

\* [^\s@]
NotSpaceNorAt(c) == c \notin Whitespace /\ c # "@"

\* /^[^\s@]+@[^\s@]+\.[^\s@]+$/ as an automaton: 0 before the local part,
\* 1 inside it, 2 after '@', 3 inside the domain, 4 after the '.', 5
\* inside the last part (accepting).  A '.' inside the domain may be the
\* separating one or not, hence the sets of positions.
EmailStep(q, c) ==
    CASE q = 0 -> IF NotSpaceNorAt(c) THEN {1} ELSE {}
      [] q = 1 -> IF NotSpaceNorAt(c) THEN {1} ELSE IF c = "@" THEN {2} ELSE {}
      [] q = 2 -> IF NotSpaceNorAt(c) THEN {3} ELSE {}
      [] q = 3 -> IF c = "." THEN {3, 4} ELSE IF NotSpaceNorAt(c) THEN {3} ELSE {}
      [] q = 4 -> IF NotSpaceNorAt(c) THEN {5} ELSE {}
      [] q = 5 -> IF NotSpaceNorAt(c) THEN {5} ELSE {}

RECURSIVE EmailRun(_, _)
EmailRun(qs, s) ==
    IF s = << >> THEN qs
    ELSE EmailRun(UNION {EmailStep(q, Head(s)) : q \in qs}, Tail(s))

\* emailRegex.test(value)
emailRegexTest(s) == 5 \in EmailRun({0}, s)

-----------------------------------------------------------------------------
(* Field validation (src/main.js:281-335).                                 *)

MsgRequired == "To pole jest wymagane"

MsgEmailFormat == "Podaj prawidlowy adres e-mail"

\* field.name of each input: the markup names an input after its id.
FieldName(f) == f

\* validateField up to 'if (errorMessage)': the message it arrives at.
errorMessage(f, v, page) ==
    IF page.required[f] /\ Trim(v) = << >> THEN MsgRequired
    ELSE IF FieldName(f) = "email" /\ Trim(v) # << >> /\ ~emailRegexTest(Trim(v))
         THEN MsgEmailFormat
         ELSE ""

\* showFieldError / clearFieldError on one field, given the flags and texts
\* so far: the class is set or removed, the text only where the input's
\* .form-group holds a .form-error element.
showFieldError(st, f, message, page) ==
    [invalid |-> [st.invalid EXCEPT ![f] = TRUE],
     errorText |-> IF page.errorEl[f]
                   THEN [st.errorText EXCEPT ![f] = message]
                   ELSE st.errorText]

\* a clear that removes the class and leaves the message
clearFieldError_KeepsText(st, f, page) ==
    [invalid |-> [st.invalid EXCEPT ![f] = FALSE],
     errorText |-> st.errorText]

clearFieldError(st, f, page) ==
    [invalid |-> [st.invalid EXCEPT ![f] = FALSE],
     errorText |-> IF page.errorEl[f]
                   THEN [st.errorText EXCEPT ![f] = ""]
                   ELSE st.errorText]

\* validateField(field): true for a missing field, which it leaves alone.
validateFieldResult(f, present, v, page) ==
    ~present \/ errorMessage(f, v, page) = ""

validateFieldEffect(st, f, present, v, page) ==
    IF ~present THEN st
    ELSE IF errorMessage(f, v, page) # ""
         THEN showFieldError(st, f, errorMessage(f, v, page), page)
         ELSE clearFieldError(st, f, page)

FieldState == [invalid |-> invalid, errorText |-> errorText]

\* blur on one of the three inputs that got the listener (line 236)
Blur(f) ==
    /\ f \in ValidatedFields
    /\ FieldPresent(f)
    /\ LET after == validateFieldEffect(FieldState, f, TRUE, value[f], dom)
       IN /\ invalid' = after.invalid
          /\ errorText' = after.errorText
    /\ PlainEvent("blur")
    /\ UNCHANGED <<pageVars, menuVars, scrollVars, revealVars,
                   value, href, navs, notices, timers>>

\* The user edits an input to hold v: the input listener of line 240 runs
\* on the three validated inputs, none on the phone input.
Input(f, v) ==
    /\ FieldPresent(f)
    /\ v # value[f]
    /\ value' = [value EXCEPT ![f] = v]
    /\ LET after == IF f \in ValidatedFields
                    THEN clearFieldError(FieldState, f, dom)
                    ELSE FieldState
       IN /\ invalid' = after.invalid
          /\ errorText' = after.errorText
    /\ PlainEvent("input")
    /\ UNCHANGED <<pageVars, menuVars, scrollVars, revealVars,
                   href, navs, notices, timers>>

-----------------------------------------------------------------------------
(* The mailto link (src/main.js:257-274, 340-351).                         *)

\* The characters the model uses that encodeURIComponent escapes, with
\* their UTF-8 percent escapes; every other symbol is left as it is.
EscapeTable ==
    {[symbol |-> " ", code |-> <<"%", "2", "0">>],
     [symbol |-> LF, code |-> <<"%", "0", "A">>],
     [symbol |-> "%", code |-> <<"%", "2", "5">>],
     [symbol |-> "&", code |-> <<"%", "2", "6">>],
     [symbol |-> ":", code |-> <<"%", "3", "A">>],
     [symbol |-> "@", code |-> <<"%", "4", "0">>],
     [symbol |-> "U+0107", code |-> <<"%", "C", "4", "%", "8", "7">>],
     [symbol |-> "U+0119", code |-> <<"%", "C", "4", "%", "9", "9">>],
     [symbol |-> "U+015B", code |-> <<"%", "C", "5", "%", "9", "B">>]}

Escaped == {e.symbol : e \in EscapeTable}

RECURSIVE encodeURIComponent(_)
encodeURIComponent(s) ==
    IF s = << >> THEN << >>
    ELSE (IF Head(s) \in Escaped
          THEN (CHOOSE e \in EscapeTable : e.symbol = Head(s)).code
          ELSE <<Head(s)>>) \o encodeURIComponent(Tail(s))

NameLabel == <<"Imi", "U+0119", " ", "i", " ", "nazwisko", ":", " ">>

EmailLabel == <<"E-mail", ":", " ">>

PhoneLabel == <<"Telefon", ":", " ">>

MessageLabel == <<"Wiadomo", "U+015B", "U+0107", ":">>

Subject == <<"Zapytanie", " ", "ze", " ", "strony", " ", "ITEasier">>

Recipient == "mailto:kontakt@iteasier.pl"

\* a body that writes the phone line whatever the phone value is
buildEmailBody_AlwaysPhone(name, email, phone, message) ==
    encodeURIComponent(
        NameLabel \o name \o <<LF>> \o
        EmailLabel \o email \o <<LF>> \o
        PhoneLabel \o phone \o <<LF>> \o
        <<LF>> \o MessageLabel \o <<LF>> \o message)

buildEmailBody(name, email, phone, message) ==
    encodeURIComponent(
        NameLabel \o name \o <<LF>> \o
        EmailLabel \o email \o <<LF>> \o
        (IF phone # << >> THEN PhoneLabel \o phone \o <<LF>> ELSE << >>) \o
        <<LF>> \o MessageLabel \o <<LF>> \o message)

\* `mailto:kontakt@iteasier.pl?subject=${subject}&body=${body}`
mailtoLink(subject, body) ==
    <<Recipient, "?subject=">> \o subject \o <<"&body=">> \o body

\* The page's own address, before any navigation.
PageAddress == <<"page">>

\* The first input the submit handler dereferences although it is null:
\* validateField(null) is true, and lines 261-264 read .value unchecked
\* (the phone input alone is checked, line 263).
SubmitError ==
    IF ~FieldPresent("name") THEN "TypeError: nameInput is null"
    ELSE IF ~FieldPresent("email") THEN "TypeError: emailInput is null"
    ELSE IF ~FieldPresent("message") THEN "TypeError: messageInput is null"
    ELSE NoError

\* a validation that stops at the first input that fails
SubmitValidation_StopsAtFirst ==
    LET st1 == validateFieldEffect(FieldState, "name", FieldPresent("name"),
                                   value["name"], dom)
        st2 == validateFieldEffect(st1, "email", FieldPresent("email"),
                                   value["email"], dom)
        st3 == validateFieldEffect(st2, "message", FieldPresent("message"),
                                   value["message"], dom)
    IN IF ~validateFieldResult("name", FieldPresent("name"), value["name"], dom)
       THEN st1
       ELSE IF ~validateFieldResult("email", FieldPresent("email"),
                                    value["email"], dom)
            THEN st2
            ELSE st3

\* The three validateField calls of lines 253-255, none skipped.
SubmitValidation ==
    LET st1 == validateFieldEffect(FieldState, "name", FieldPresent("name"),
                                   value["name"], dom)
        st2 == validateFieldEffect(st1, "email", FieldPresent("email"),
                                   value["email"], dom)
    IN validateFieldEffect(st2, "message", FieldPresent("message"),
                           value["message"], dom)

\* a verdict that also asks for a phone number
isValid_NeedsPhone ==
    /\ \A f \in ValidatedFields :
          validateFieldResult(f, FieldPresent(f), value[f], dom)
    /\ Trim(value["phone"]) # << >>

isValid ==
    \A f \in ValidatedFields :
        validateFieldResult(f, FieldPresent(f), value[f], dom)

\* submit of the form (listener added at line 247)
Submit ==
    /\ dom.has["contactForm"]
    /\ (isValid /\ SubmitError = NoError) => navs < MaxSubmits
    /\ invalid' = SubmitValidation.invalid
    /\ errorText' = SubmitValidation.errorText
    /\ IF isValid /\ SubmitError = NoError
         THEN /\ href' = mailtoLink(
                     encodeURIComponent(Subject),
                     buildEmailBody(Trim(value["name"]), Trim(value["email"]),
                                    IF FieldPresent("phone")
                                    THEN Trim(value["phone"]) ELSE << >>,
                                    Trim(value["message"])))
              /\ navs' = navs + 1
              \* showFormSuccess
              /\ IF dom.has["submitBtn"]
                   THEN /\ notices' = <<navs + 1>> \o notices
                        /\ timers' = timers \cup {navs + 1}
                   ELSE UNCHANGED <<notices, timers>>
         ELSE UNCHANGED <<href, navs, notices, timers>>
    /\ Event("submit", IF isValid THEN SubmitError ELSE NoError, TRUE,
             NoScroll, FALSE)
    /\ UNCHANGED <<pageVars, menuVars, scrollVars, revealVars,
                   value>>

\* a timer callback that removes whichever notice stands first
DismissTimeout_RemovesFirst(n) ==
    /\ n \in timers
    /\ timers' = timers \ {n}
    /\ notices' = IF notices = << >> THEN notices ELSE Tail(notices)
    /\ PlainEvent("timeout")
    /\ UNCHANGED <<pageVars, menuVars, scrollVars, revealVars,
                   value, invalid, errorText, href, navs>>

\* The dismiss timer of notice n fires (setTimeout callback, line 373).
DismissTimeout(n) ==
    /\ n \in timers
    /\ timers' = timers \ {n}
    /\ notices' = SelectSeq(notices, LAMBDA m : m # n)
    /\ PlainEvent("timeout")
    /\ UNCHANGED <<pageVars, menuVars, scrollVars, revealVars,
                   value, invalid, errorText, href, navs>>

\* Something other than the script takes notice n out of the document
\* before its timer fires: the case line 374 (if (successMessage.parentNode))
\* provides for.
RemoveNotice(n) ==
    /\ InQueue(notices, n)
    /\ notices' = SelectSeq(notices, LAMBDA m : m # n)
    /\ PlainEvent("removeNotice")
    /\ UNCHANGED <<pageVars, menuVars, scrollVars, revealVars,
                   value, invalid, errorText, href, navs, timers>>

-----------------------------------------------------------------------------
(* The state once init() has run (src/main.js:24-31, 381-386) on a page,  *)
(* with the motion preference rm and the animated elements els, loaded at  *)
(* scroll offset y in a viewport of height h, the inputs holding vals.     *)

\* line 152: setupHeaderScroll ends with a call of updateHeader()
InitialHeaderCheck(page, y) == page.has["header"] /\ HeaderMarker(y)

\* a setup that leaves the control hidden until the first scroll event
InitialScrollTopCheck_Skipped(page, y, h) == FALSE

\* line 191: setupScrollToTop ends with a call of
\* updateScrollTopVisibility()
InitialScrollTopCheck(page, y, h) ==
    page.has["scrollTopBtn"] /\ ScrollTopMarker(y, h)

InitWith(page, rm, els, y, h, vals) ==
    /\ dom = page
    /\ prefersReducedMotion = rm
    /\ animatedElements = els
    \* line 10 samples the preference in force when the script runs
    /\ motionPreference = rm
    /\ mainNavIsOpen = FALSE
    /\ ariaExpanded = FromMarkup
    /\ ariaLabel = FromMarkup
    /\ bodyOverflow = ""
    /\ lastEvent = "init"
    /\ error = NoError
    /\ defaultPrevented = FALSE
    /\ scrollTo = NoScroll
    /\ focused = FALSE
    /\ scrollY = y
    /\ innerHeight = h
    /\ headerScrolled = InitialHeaderCheck(page, y)
    /\ lastScrollY = y
    /\ headerTicking = FALSE
    /\ scrollTopVisible = InitialScrollTopCheck(page, y, h)
    /\ scrollTopTicking = FALSE
    /\ rafQueue = << >>
    \* lines 198-202 and 219
    /\ revealed = IF ObserverCreated(rm, els) THEN {} ELSE els
    /\ observed = IF ObserverCreated(rm, els) THEN els ELSE {}
    /\ value = vals
    /\ invalid = [f \in Fields |-> FALSE]
    /\ errorText = [f \in Fields |-> ""]
    /\ href = PageAddress
    /\ navs = 0
    /\ notices = << >>
    /\ timers = {}

EmptyForm == [f \in Fields |-> << >>]

-----------------------------------------------------------------------------
(* The inputs the specifications draw from.                                *)

Keys == {"Escape", "Enter"}

\* offsetTop of a link's target and offsetHeight of the header
OffsetTops == {0, 300}

HeaderHeights == {0, 80}

ScrollOffsets ==
    {0} \cup ((ScrollThreshold - ScrollWindow)..(ScrollThreshold + ScrollWindow))

\* viewport heights whose half lies below, at and above the header's threshold
ViewportHeights ==
    {2 * ScrollThreshold - 3, 2 * ScrollThreshold, 2 * ScrollThreshold + 2}

\* the values the inputs are edited to
Samples ==
    [name |-> {<< >>, <<" ">>, <<" ", "a", " ", "a", " ">>},
     email |-> {<< >>, <<"a", "@", "a">>, <<" ", "a", "@", "a", ".", "a">>},
     phone |-> {<< >>, <<" ">>, <<"%", "2", "0">>},
     message |-> {<< >>, <<"a", LF, "&", "a", " ">>}]

\* pages that differ from the full page in the elements of `names`
PagesVarying(names) ==
    {page \in Pages :
        /\ page.required = FullPage.required
        /\ page.errorEl = FullPage.errorEl
        /\ \A e \in ElementNames \ names : page.has[e]}

-----------------------------------------------------------------------------
(* The mobile menu and the links.                                          *)

MenuInit ==
    \E page \in PagesVarying({"header", "menuToggle", "mainNav"}),
       rm \in BOOLEAN :
        InitWith(page, rm, {1}, 0, 2 * ScrollThreshold, EmptyForm)

MenuNext ==
    \/ ClickToggle
    \/ \E key \in Keys : Keydown(key)
    \/ \E kind \in AnchorKinds, t \in OffsetTops, hh \in HeaderHeights :
        ClickAnchor(kind, t, hh)
    \/ \E kind \in LinkKinds, t \in OffsetTops, hh \in HeaderHeights :
        ClickNavLink(kind, t, hh)

SpecMenu == MenuInit /\ [][MenuNext]_vars

-----------------------------------------------------------------------------
(* The scroll watchers.                                                    *)

ScrollInit ==
    \E page \in PagesVarying({"header", "scrollTopBtn"}),
       rm \in BOOLEAN, y \in ScrollOffsets, h \in ViewportHeights :
        InitWith(page, rm, {1}, y, h, EmptyForm)

ScrollNext ==
    \/ \E y \in ScrollOffsets : Scroll(y)
    \/ AnimationFrame
    \/ \E h \in ViewportHeights : Resize(h)
    \/ ClickScrollTop

SpecScroll == ScrollInit /\ [][ScrollNext]_vars

\* Scroll events and animation frames alone, in a viewport of fixed height.
\* The browser runs the callbacks handed to requestAnimationFrame before
\* its next repaint, so a frame that is due is not postponed forever.
FramesNext ==
    \/ \E y \in ScrollOffsets : Scroll(y)
    \/ AnimationFrame

SpecFrames == ScrollInit /\ [][FramesNext]_vars /\ WF_vars(AnimationFrame)

-----------------------------------------------------------------------------
(* The reveal observer.                                                    *)

RevealInit ==
    \E rm \in BOOLEAN, n \in 0..NumAnimated :
        InitWith(FullPage, rm, 1..n, 0, 2 * ScrollThreshold, EmptyForm)

RevealNext == \E entries \in EntryBatches : Intersect(entries)

SpecReveal == RevealInit /\ [][RevealNext]_vars

-----------------------------------------------------------------------------
(* The contact form.                                                       *)

FormInit ==
    \E page \in PagesVarying({"phone", "submitBtn"}) :
        InitWith(page, FALSE, {1}, 0, 2 * ScrollThreshold, EmptyForm)

FormNext ==
    \/ \E f \in ValidatedFields : Blur(f)
    \/ \E f \in Fields : \E v \in Samples[f] : Input(f, v)
    \/ Submit
    \/ \E n \in 1..MaxSubmits : DismissTimeout(n)

SpecForm == FormInit /\ [][FormNext]_vars

-----------------------------------------------------------------------------
(* validateField on every value of at most MaxLen characters, in each of   *)
(* the three validated inputs, required or not.                            *)

ValidateInit ==
    \E v \in Strings(MaxLen), req \in BOOLEAN :
        InitWith([FullPage EXCEPT
                     !.required = [f \in Fields |-> req /\ f \in ValidatedFields]],
                 FALSE, {1}, 0, 2 * ScrollThreshold,
                 [f \in Fields |-> v])

ValidateNext == \E f \in ValidatedFields : Blur(f)

SpecValidate == ValidateInit /\ [][ValidateNext]_vars

-----------------------------------------------------------------------------
(* Pages with any of the elements missing, the inputs that exist holding   *)
(* values that pass validation.                                            *)

ValidForm ==
    [name |-> <<"a">>, email |-> <<"a", "@", "a", ".", "a">>,
     phone |-> << >>, message |-> <<"a">>]

DomInit ==
    \E page \in PagesVarying(ElementNames) :
        InitWith(page, FALSE, {1}, 0, 2 * ScrollThreshold, ValidForm)

DomNext ==
    \/ ClickToggle
    \/ \E key \in Keys : Keydown(key)
    \/ \E kind \in AnchorKinds : ClickAnchor(kind, 300, 80)
    \/ \E y \in {0, ScrollThreshold + 1} : Scroll(y)
    \/ AnimationFrame
    \/ ClickScrollTop
    \/ Submit

SpecDom == DomInit /\ [][DomNext]_vars

-----------------------------------------------------------------------------
(* The success notices of a form that is submitted, edited and submitted   *)
(* again, with and without a submit control.  A timer started by           *)
(* setTimeout fires once its delay has passed: the mailto navigation       *)
(* leaves the page, and with it its timers, in place.                      *)

NoticeInit ==
    \E page \in PagesVarying({"submitBtn"}), vals \in {EmptyForm, ValidForm} :
        InitWith(page, FALSE, {1}, 0, 2 * ScrollThreshold, vals)

NoticeNext ==
    \/ \E f \in ValidatedFields : \E v \in {<< >>, ValidForm[f]} : Input(f, v)
    \/ Submit
    \/ \E n \in 1..MaxSubmits : DismissTimeout(n)
    \/ \E n \in 1..MaxSubmits : RemoveNotice(n)

SpecNotice ==
    /\ NoticeInit
    /\ [][NoticeNext]_vars
    /\ \A n \in 1..MaxSubmits : WF_vars(DismissTimeout(n))

-----------------------------------------------------------------------------
(* The three sources of window.scrollTo on the full page, while the user   *)
(* switches the reduced-motion preference.                                 *)

MotionInit ==
    \E rm \in BOOLEAN, y \in {0, ScrollThreshold + 1} :
        InitWith(FullPage, rm, {1}, y, 2 * ScrollThreshold, EmptyForm)

MotionNext ==
    \/ ClickToggle
    \/ \E kind \in AnchorKinds, t \in OffsetTops, hh \in HeaderHeights :
          ClickAnchor(kind, t, hh)
    \/ \E kind \in LinkKinds, t \in OffsetTops, hh \in HeaderHeights :
          ClickNavLink(kind, t, hh)
    \/ ClickScrollTop
    \/ ChangeMotionPreference

SpecMotion == MotionInit /\ [][MotionNext]_vars

-----------------------------------------------------------------------------
(* The whole script on the full page: every handler, on coarse inputs.     *)

CoarseOffsets == {0, ScrollThreshold + 1}

CoarseHeights == {2 * ScrollThreshold, 2 * ScrollThreshold + 4}

\* the name input is edited between empty and valid; the other inputs keep
\* the values of ValidForm
CoarseNames == {<< >>, ValidForm["name"]}

Init ==
    \E rm \in BOOLEAN :
        InitWith(FullPage, rm, {1}, 0, 2 * ScrollThreshold, ValidForm)

Next ==
    \/ ClickToggle
    \/ Keydown("Escape")
    \/ \E kind \in AnchorKinds : ClickAnchor(kind, 300, 80)
    \/ \E kind \in {"found", "external"} : ClickNavLink(kind, 300, 80)
    \/ \E y \in CoarseOffsets : Scroll(y)
    \/ AnimationFrame
    \/ \E h \in CoarseHeights : Resize(h)
    \/ ClickScrollTop
    \/ \E entries \in EntryBatches : Intersect(entries)
    \/ \E f \in ValidatedFields : Blur(f)
    \/ \E v \in CoarseNames : Input("name", v)
    \/ Submit
    \/ \E n \in 1..MaxSubmits : DismissTimeout(n)

Spec == Init /\ [][Next]_vars

-----------------------------------------------------------------------------
(* Claims about the mobile menu, checked under SpecMenu.                   *)

\* C1: on a page that has the toggle control and the panel, the menu
\* starts closed; a click on the toggle control flips it (closed to open,
\* open to closed); an Escape keydown and a click on a navigation link
\* leave it closed, whether it was open or closed before.
C1_MenuMachine ==
    /\ ~mainNavIsOpen
    /\ [][MenuInstalled =>
            /\ (lastEvent' = "clickToggle" => mainNavIsOpen' = ~mainNavIsOpen)
            /\ (lastEvent' \in {"keydownEscape", "clickNavLink"}
                    => ~mainNavIsOpen')]_vars

\* C1, witness: the toggle control was clicked and the menu is open.
C1_Witness == lastEvent = "clickToggle" /\ mainNavIsOpen

\* C2: in every state reached by toggle clicks, keydowns, navigation-link
\* clicks and in-page anchor clicks, the body's overflow is 'hidden' exactly
\* when the panel is open, and so are the toggle control's aria-expanded
\* 'true' and its 'close' label.
C2_LockMirrorsMenu ==
    /\ (bodyOverflow = "hidden") = mainNavIsOpen
    /\ (ariaExpanded = "true") = mainNavIsOpen
    /\ (ariaLabel = LabelClose) = mainNavIsOpen

\* C2, witness: an in-page anchor was clicked, and the menu the script had
\* opened before is closed, with the lock released.
C2_Witness ==
    /\ lastEvent = "clickAnchor"
    /\ ~mainNavIsOpen
    /\ ariaExpanded = "false"
    /\ bodyOverflow = ""

-----------------------------------------------------------------------------
(* Claims about the scroll watchers, checked under SpecScroll.             *)

\* C3, as stated: in every reachable state the header carries the scrolled
\* marker exactly when the scroll offset exceeds 50.
C3_AsStated ==
    dom.has["header"] => (headerScrolled = (scrollY > ScrollThreshold))

\* C3, amended: in every reachable state in which no recomputation of the
\* header is pending, the header carries the scrolled marker exactly when
\* the scroll offset exceeds 50.
C3_HeaderFollowsOffset ==
    (dom.has["header"] /\ ~headerTicking)
        => (headerScrolled = (scrollY > ScrollThreshold))

\* C3, witness: a frame has recomputed the header just above the threshold.
C3_Witness ==
    /\ dom.has["header"]
    /\ lastEvent = "frame"
    /\ scrollY = ScrollThreshold + 1
    /\ headerScrolled

\* C4: with no recomputation pending, the scroll-to-top control is visible
\* exactly when the scroll offset exceeds half the current viewport height.
C4_ScrollTopFollowsViewport ==
    (dom.has["scrollTopBtn"] /\ ~scrollTopTicking)
        => (scrollTopVisible = (2 * scrollY > innerHeight))

-----------------------------------------------------------------------------
(* The claim about the reveal observer, checked under SpecReveal.          *)

\* C5: an element that is revealed stays revealed, whatever entries,
\* intersecting or not, the observer's callback receives afterwards.
C5_RevealIsOneWay == [][revealed \subseteq revealed']_vars

\* C5, witness: the callback has run, some elements are revealed and
\* others are still observed.
C5_Witness ==
    /\ lastEvent = "intersect"
    /\ revealed # {}
    /\ observed # {}

-----------------------------------------------------------------------------
(* Claims about the contact form.                                          *)

\* A value of the form X@Y.Z, where X, Y and Z are one or more characters
\* that are neither whitespace nor '@'.
HasEmailForm(v) ==
    \E i, j \in 1..Len(v) :
        /\ 1 < i /\ i + 1 < j /\ j < Len(v)
        /\ v[i] = "@"
        /\ v[j] = "."
        /\ \A k \in 1..Len(v) : k # i => v[k] \notin {" ", LF, "@"}

\* What the specification asks of an input's value.
FieldOk(f) ==
    /\ ~(dom.required[f] /\ Trim(value[f]) = << >>)
    /\ (f = "email" /\ Trim(value[f]) # << >>) => HasEmailForm(Trim(value[f]))

\* C6 (SpecForm): a blur of name, email or message while the input is
\* required and empty after trimming flags it with the 'required' message;
\* an edit of the input clears the flag and the message at once, and an
\* unflagged input gets a flag or a message only by a blur or a submit.
C6_BlurFlagsInputClears ==
    [][\A f \in ValidatedFields :
          /\ (Blur(f) /\ dom.required[f] /\ Trim(value[f]) = << >>)
                => (invalid'[f] /\ errorText'[f] = MsgRequired)
          /\ (value'[f] # value[f])
                => (~invalid'[f] /\ errorText'[f] = "")
          /\ ((~invalid[f] /\ invalid'[f]) \/ (errorText[f] = "" /\ errorText'[f] # ""))
                => lastEvent' \in {"blur", "submit"}]_vars

\* C6, witness: a blur has flagged the empty required email with the
\* 'required' message, and an edit has just left the required name blank
\* and unflagged.
C6_Witness ==
    /\ lastEvent = "input"
    /\ value["email"] = << >>
    /\ invalid["email"]
    /\ errorText["email"] = MsgRequired
    /\ value["name"] = <<" ">>
    /\ dom.required["name"]
    /\ ~invalid["name"]
    /\ errorText["name"] = ""

\* C7 (SpecValidate): validateField accepts a non-empty trimmed email
\* exactly when it has the form X@Y.Z, and flags it with the format message
\* otherwise; an empty required email gets the 'required' message; an empty
\* email that is not required, and any other input that is not both
\* required and empty, is accepted.
C7_ValidateField ==
    [][/\ Blur("email") =>
            LET v == Trim(value["email"])
                message == IF v = << >>
                           THEN (IF dom.required["email"] THEN MsgRequired ELSE "")
                           ELSE (IF HasEmailForm(v) THEN "" ELSE MsgEmailFormat)
            IN /\ errorText'["email"] = message
               /\ invalid'["email"] = (message # "")
       /\ \A f \in {"name", "message"} :
            Blur(f) =>
                LET missing == dom.required[f] /\ Trim(value[f]) = << >>
                IN /\ invalid'[f] = missing
                   /\ errorText'[f] = (IF missing THEN MsgRequired ELSE "")]_vars

\* C7, witness: an email without '@' was validated and carries the format
\* message.
C7_Witness ==
    /\ lastEvent = "blur"
    /\ value["email"] = <<"a", "a", ".", "a">>
    /\ invalid["email"]
    /\ errorText["email"] = MsgEmailFormat

\* C8 (SpecForm): a submit validates name, email and message, all three;
\* afterwards exactly the inputs that fail carry a flag and a message, and
\* if any fails there is no navigation and no success notice.
C8_SubmitValidatesAll ==
    [][lastEvent' = "submit" =>
          /\ \A f \in ValidatedFields :
                /\ invalid'[f] = ~FieldOk(f)
                /\ (errorText'[f] # "") = ~FieldOk(f)
          /\ (\E f \in ValidatedFields : ~FieldOk(f)) =>
                /\ href' = href
                /\ navs' = navs
                /\ notices' = notices
                /\ timers' = timers]_vars

\* C8, witness: a submit found name and email failing and message passing.
C8_Witness ==
    /\ lastEvent = "submit"
    /\ invalid["name"] /\ errorText["name"] # ""
    /\ invalid["email"] /\ errorText["email"] # ""
    /\ FieldOk("message") /\ ~invalid["message"] /\ errorText["message"] = ""
    /\ href = PageAddress

IsPrefix(p, s) == Len(p) <= Len(s) /\ SubSeq(s, 1, Len(p)) = p

RECURSIVE decodeURIComponent(_)
\* The reader of the link: each percent escape back to its character.
decodeURIComponent(s) ==
    IF s = << >> THEN << >>
    ELSE IF Head(s) # "%" THEN <<Head(s)>> \o decodeURIComponent(Tail(s))
    ELSE LET hits == {e \in EscapeTable : IsPrefix(e.code, s)}
         IN IF hits = {} THEN <<"URIError">>
            ELSE LET e == CHOOSE x \in hits : TRUE
                 IN <<e.symbol>> \o
                    decodeURIComponent(SubSeq(s, Len(e.code) + 1, Len(s)))

\* the body parameter of a mailto link
BodyOf(link) ==
    LET i == CHOOSE k \in 1..Len(link) : link[k] = "&body="
    IN SubSeq(link, i + 1, Len(link))

\* the decoded body the specification describes
ExpectedBody ==
    NameLabel \o Trim(value["name"]) \o <<LF>> \o
    EmailLabel \o Trim(value["email"]) \o <<LF>> \o
    (IF FieldPresent("phone") /\ Trim(value["phone"]) # << >>
     THEN PhoneLabel \o Trim(value["phone"]) \o <<LF>>
     ELSE << >>) \o
    <<LF>> \o MessageLabel \o <<LF>> \o Trim(value["message"])

\* C9 (SpecForm): a submit with name, email and message passing navigates
\* once, to a mailto link for the fixed recipient whose decoded body is the
\* name line, the email line, the phone line if and only if the trimmed
\* phone value is not empty, and the message section, with the trimmed
\* values as typed.
C9_MailtoBody ==
    [][(lastEvent' = "submit" /\ \A f \in ValidatedFields : FieldOk(f)) =>
          /\ navs' = navs + 1
          /\ href'[1] = "mailto:kontakt@iteasier.pl"
          /\ decodeURIComponent(BodyOf(href')) = ExpectedBody]_vars

\* C9, witness: a submit navigated to a link with a blank phone value, and
\* its decoded body holds no phone label.
C9_Witness ==
    /\ lastEvent = "submit"
    /\ href # PageAddress
    /\ value["phone"] = <<" ">>
    /\ \A k \in 1..Len(decodeURIComponent(BodyOf(href))) :
          decodeURIComponent(BodyOf(href))[k] # "Telefon"

\* C10 (SpecDom): whatever elements the page lacks, no handler raises.
C10_NoHandlerRaises == error = NoError


-----------------------------------------------------------------------------
(* Claims about clicks on in-page anchors, checked under SpecMenu.         *)

\* What the claim expects of a click on an anchor of the given kind whose
\* target lies at offsetTop under a header of height headerHeight.
AnchorOutcome(kind, offsetTop, headerHeight) ==
    CASE kind = "found" ->
            /\ defaultPrevented'
            /\ ~mainNavIsOpen'
            /\ scrollTo' = ScrollRequest(offsetTop - headerHeight)
      [] kind = "missing" ->
            /\ ~defaultPrevented'
            /\ scrollTo' = NoScroll
      [] kind = "root" ->
            /\ defaultPrevented'
            /\ scrollTo' = ScrollRequest(0)

\* C11: a click on an in-page anchor whose fragment selects an element
\* prevents the default navigation, leaves the mobile menu closed and
\* requests a scroll to the target's offset minus the header height; a
\* click on an anchor whose fragment selects nothing prevents nothing,
\* requests no scroll and (in the anchor listener) leaves the menu as it
\* was; a click on '#' prevents the default and requests a scroll to 0.
C11_AnchorClick ==
    [][\A kind \in AnchorKinds, offsetTop \in OffsetTops,
          headerHeight \in HeaderHeights :
          /\ ClickAnchor(kind, offsetTop, headerHeight)
                => /\ AnchorOutcome(kind, offsetTop, headerHeight)
                   /\ kind = "missing" => UNCHANGED menuVars
          /\ ClickNavLink(kind, offsetTop, headerHeight)
                => AnchorOutcome(kind, offsetTop, headerHeight)]_vars

-----------------------------------------------------------------------------
(* Claims about the scroll behavior, checked under SpecMotion.             *)

ScrollingEvents == {"clickAnchor", "clickNavLink", "clickScrollTop"}

\* C12: every scroll the script requests (root anchor, in-page
\* anchor, scroll-to-top control) is instantaneous when the reduced-motion
\* preference in force at the moment of the click is set, and smooth when
\* it is not.
C12_ScrollFollowsPreference ==
    (lastEvent \in ScrollingEvents /\ scrollTo.requested)
        => scrollTo.behavior = IF motionPreference THEN "auto" ELSE "smooth"

-----------------------------------------------------------------------------
(* The claim about frame coalescing, checked under SpecScroll.             *)

\* how many callbacks cb the animation-frame queue q holds
Pending(q, cb) == Cardinality({i \in 1..Len(q) : q[i] = cb})

\* One step of one watcher with callback cb and its flag before and after
\* the step: a scroll event queues a callback only when the flag is clear
\* and nothing while it is set, and the flag is cleared only by the frame
\* that runs the callback.
Coalesces(watched, cb, ticking, tickingAfter) ==
    /\ (lastEvent' = "scroll" /\ watched /\ ~ticking)
          => (Pending(rafQueue', cb) = 1 /\ tickingAfter)
    /\ (lastEvent' = "scroll" /\ ticking)
          => (Pending(rafQueue', cb) = 1 /\ tickingAfter)
    /\ (ticking /\ ~tickingAfter)
          => (lastEvent' = "frame" /\ Pending(rafQueue', cb) = 0)

\* C13: each scroll watcher (header marker, scroll-to-top visibility), with
\* its own flag, has at most one recomputation callback pending: a scroll
\* event schedules one only when none is pending, scroll events that arrive
\* while one is pending schedule nothing, and the pending flag is cleared
\* only by that callback running.
C13_OnePendingPerWatcher ==
    /\ [](/\ Pending(rafQueue, "updateHeader")
                = IF headerTicking THEN 1 ELSE 0
          /\ Pending(rafQueue, "updateScrollTopVisibility")
                = IF scrollTopTicking THEN 1 ELSE 0)
    /\ [][/\ Coalesces(dom.has["header"], "updateHeader",
                       headerTicking, headerTicking')
          /\ Coalesces(dom.has["scrollTopBtn"], "updateScrollTopVisibility",
                       scrollTopTicking, scrollTopTicking')]_vars

\* C13, witness: a scroll event arrived while both watchers already had
\* their callback pending for an earlier offset; the queue still holds the
\* two callbacks, once each.
C13_Witness ==
    /\ lastEvent = "scroll"
    /\ headerTicking /\ scrollTopTicking
    /\ rafQueue = <<"updateHeader", "updateScrollTopVisibility">>
    /\ lastScrollY = 0
    /\ scrollY = ScrollThreshold + 1
    /\ ~headerScrolled

-----------------------------------------------------------------------------
(* The claim about lost updates, checked under SpecFrames.                 *)

\* both markers agree with the current offset
Settled ==
    /\ dom.has["header"] => (headerScrolled = (scrollY > ScrollThreshold))
    /\ dom.has["scrollTopBtn"]
          => (scrollTopVisible = (2 * scrollY > innerHeight))

\* C14: when animation frames are scheduled fairly no scroll update is
\* lost: once scrolling stops (from some point on no step is a scroll
\* event), the header's marker is eventually, and from then on, set exactly
\* when the final offset exceeds 50, and the scroll-to-top control visible
\* exactly when the final offset exceeds half the viewport height, whatever
\* scroll events were coalesced on the way.
C14_NoUpdateLost == <>[][lastEvent' # "scroll"]_vars => <>[]Settled

\* C14, witness: after scroll events that changed both outcomes, a frame
\* has run and both markers show the result for the offset the page is at.
C14_Witness ==
    /\ lastEvent = "frame"
    /\ dom.has["header"] /\ dom.has["scrollTopBtn"]
    /\ rafQueue = << >>
    /\ scrollY = ScrollThreshold + 1
    /\ headerScrolled /\ scrollTopVisible

-----------------------------------------------------------------------------
(* The claim about the state after initialization, checked under           *)
(* SpecScroll, whose initial states are loads at every offset.             *)

\* C15: right after initialization, before any scroll event, whatever
\* offset the page was loaded at, the header's marker is set exactly when
\* that offset exceeds 50, the scroll-to-top control is visible exactly
\* when it exceeds half the viewport height, and neither watcher has a
\* recomputation pending.
C15_InitialChecks ==
    lastEvent = "init"
        => /\ dom.has["header"]
                => (headerScrolled = (scrollY > ScrollThreshold))
           /\ dom.has["scrollTopBtn"]
                => (scrollTopVisible = (2 * scrollY > innerHeight))
           /\ ~headerTicking
           /\ ~scrollTopTicking
           /\ rafQueue = << >>

\* C15, witness: a page loaded already scrolled past both thresholds.
C15_Witness ==
    /\ lastEvent = "init"
    /\ dom.has["header"] /\ dom.has["scrollTopBtn"]
    /\ scrollY = ScrollThreshold + 1
    /\ headerScrolled /\ scrollTopVisible

-----------------------------------------------------------------------------
(* The claim about the reveal policy, checked under SpecReveal.            *)

\* the reports the observer can deliver about one element
Reports == [target : animatedElements, isIntersecting : BOOLEAN]

\* C16: with reduced motion preferred every marked element is revealed at
\* initialization and none is ever observed.  Otherwise no marked element
\* is revealed at initialization, all are observed, an element is revealed
\* exactly when it is no longer observed, an intersecting report reveals
\* its element and ends its observation, and a report that is not
\* intersecting changes nothing.
C16_RevealPolicy ==
    /\ [](prefersReducedMotion
            => (revealed = animatedElements /\ observed = {}))
    /\ [](~prefersReducedMotion
            => /\ lastEvent = "init" => revealed = {}
               /\ observed = animatedElements \ revealed)
    /\ [][~prefersReducedMotion
            => \A report \in Reports :
                 Intersect(<<report>>)
                    => IF report.isIntersecting
                       THEN /\ revealed' = revealed \cup {report.target}
                            /\ observed' = observed \ {report.target}
                       ELSE UNCHANGED <<revealed, observed>>]_vars

\* C16, witness: without reduced motion, the first intersecting report
\* about element 1 has arrived; it is revealed and no longer observed, the
\* other elements are still hidden and observed.
C16_Witness ==
    /\ ~prefersReducedMotion
    /\ lastEvent = "intersect"
    /\ 2 \in animatedElements
    /\ revealed = {1}
    /\ observed = animatedElements \ {1}

-----------------------------------------------------------------------------
(* The claim about the success notice, checked under SpecNotice.           *)

\* notice n is in the document
Shown(n) == \E i \in 1..Len(notices) : notices[i] = n

\* C17: a submit whose three inputs pass inserts one notice directly after
\* the submit control and starts its timer; every notice in the document is
\* eventually out of it, taken out by its own timer unless something else
\* removed it first; a timer that fires for a notice already removed
\* changes nothing and raises nothing; without a submit control a
\* successful submit inserts no notice and starts no timer, and still
\* navigates to the mailto address.
C17_NoticeLifecycle ==
    /\ [][(lastEvent' = "submit" /\ \A f \in ValidatedFields : FieldOk(f))
            => /\ navs' = navs + 1
               /\ href'[1] = Recipient
               /\ IF dom.has["submitBtn"]
                    THEN /\ notices' = <<navs'>> \o notices
                         /\ ~Shown(navs')
                         /\ timers' = timers \cup {navs'}
                         /\ navs' \notin timers
                    ELSE /\ notices' = << >>
                         /\ timers' = {}]_vars
    /\ \A n \in 1..MaxSubmits : Shown(n) ~> ~Shown(n)
    /\ [][\A n \in 1..MaxSubmits :
             (Shown(n) /\ ~Shown(n)')
                => \/ lastEvent' = "removeNotice"
                   \/ (lastEvent' = "timeout" /\ n \in timers
                         /\ n \notin timers')]_vars
    /\ [][\A n \in 1..MaxSubmits :
             (DismissTimeout(n) /\ ~Shown(n))
                => (notices' = notices /\ error' = NoError)]_vars

\* C17, witness: two notices were inserted, the older one was removed by
\* something else, and its timer has now fired and left the newer notice,
\* directly after the submit control, in place.
C17_Witness ==
    /\ lastEvent = "timeout"
    /\ notices = <<2>>
    /\ timers = {2}
    /\ navs = 2

-----------------------------------------------------------------------------
(* The claim about the phone input, checked under SpecForm.                *)

\* The message the specification asks for on an input, read from that
\* input's own value.
ExpectedMessage(f) ==
    IF FieldOk(f) THEN ""
    ELSE IF dom.required[f] /\ Trim(value[f]) = << >> THEN MsgRequired
    ELSE MsgEmailFormat

\* C18: the phone value is never validated.  The phone input never carries
\* a flag or a message; an edit of the phone value changes no flag, no
\* message and causes no navigation; and what a blur or a submit leaves on
\* name, email and message, and whether the submit navigates, is given by
\* the values of those three inputs alone, so that two forms that differ
\* only in the phone value get the same flags, messages and decision.
C18_PhoneNeverValidated ==
    /\ [](~invalid["phone"] /\ errorText["phone"] = "")
    /\ [][value'["phone"] # value["phone"]
            => /\ invalid' = invalid
               /\ errorText' = errorText
               /\ navs' = navs
               /\ href' = href]_vars
    /\ [][\A f \in ValidatedFields :
             Blur(f)
                => /\ invalid'[f] = ~FieldOk(f)
                   /\ errorText'[f] = ExpectedMessage(f)
                   /\ \A g \in Fields \ {f} :
                         /\ invalid'[g] = invalid[g]
                         /\ errorText'[g] = errorText[g]]_vars
    /\ [][lastEvent' = "submit"
            => /\ \A f \in ValidatedFields :
                     /\ invalid'[f] = ~FieldOk(f)
                     /\ errorText'[f] = ExpectedMessage(f)
               /\ (navs' = navs + 1) = (\A f \in ValidatedFields : FieldOk(f))
               /\ (navs' = navs) = (\E f \in ValidatedFields : ~FieldOk(f))]_vars

\* C18, witness: a form whose phone input holds text that is no phone
\* number was submitted and went through, the phone input unflagged.
C18_Witness ==
    /\ lastEvent = "submit"
    /\ FieldPresent("phone")
    /\ value["phone"] = <<"%", "2", "0">>
    /\ navs = 1
    /\ href[1] = Recipient
    /\ \A f \in Fields : ~invalid[f] /\ errorText[f] = ""

-----------------------------------------------------------------------------
(* The claim about the body scroll lock, checked under Spec.               *)

\* the events of the components other than the menu and the links
OtherEvents ==
    {"scroll", "frame", "resize", "intersect", "blur", "input", "submit",
     "timeout", "clickScrollTop"}

\* C19: the scroll lock of the body changes only as part of a menu
\* transition, the lock going on exactly when the menu opens and off
\* exactly when it closes; scroll events, animation frames, intersection
\* reports, blurs and edits of the form, submits, the dismiss timer and
\* clicks on the scroll-to-top control leave the lock and the menu state
\* as they were.
C19_LockOnlyByMenu ==
    /\ [][lastEvent' \in OtherEvents
            => /\ bodyOverflow' = bodyOverflow
               /\ mainNavIsOpen' = mainNavIsOpen
               /\ ariaExpanded' = ariaExpanded
               /\ ariaLabel' = ariaLabel]_vars
    /\ [][bodyOverflow' # bodyOverflow
            => /\ mainNavIsOpen' # mainNavIsOpen
               /\ bodyOverflow' = IF mainNavIsOpen' THEN "hidden" ELSE ""
               /\ lastEvent' \notin OtherEvents]_vars

\* C19, witness: with the menu open and the body locked, the form was
\* submitted and navigated; menu and lock are as they were.
C19_Witness ==
    /\ lastEvent = "submit"
    /\ navs = 1
    /\ mainNavIsOpen
    /\ bodyOverflow = "hidden"
    /\ headerScrolled
    /\ revealed = {1}

=============================================================================
